---- MODULE Spec2Model ----
(***************************************************************************)
(* The order-tracking view of the foodie repository: the OrderPage route    *)
(* component of src/app/order/[id]/page.tsx, and the DeliveryMap React     *)
(* component in its two revisions:                                         *)
(*   "p0"  src/unnamed/part_000 (marker refs, easeTo tracking)             *)
(*   "dm"  src/components/map/delivery-map.tsx (fitBounds + flyTo)         *)
(* A step of the model is one task of the browser's event loop: a commit   *)
(* of React (render, then the cleanups and the bodies of the effects whose *)
(* dependencies changed, in source order), the map's load event, a press   *)
(* of a zoom button, the end of a camera transition, or the unmount of the *)
(* component; for OrderPage, a request, the settling of the params promise *)
(* or the resumption of the suspended call.                                *)
(* Coordinates are degrees scaled by 10^4, so that (12.9716, 77.5946) is   *)
(* the pair (129716, 775946).                                              *)
(***************************************************************************)
EXTENDS Integers, Sequences, FiniteSets, TLC

\* Bounds of the model (not program constants).
MaxMaps == 2
MaxMarkers == 4
MaxZoomSteps == 1
EaseSamples == 2
MaxIdLen == 3

\* Input domain: the coordinates a caller may supply, (12.90, 77.60) and
\* (12.91, 77.61).
Points == {<<129000, 776000>>, <<129100, 776100>>}

Roles == {"restaurant", "destination", "partner"}
StaticRoles == {"restaurant", "destination"}

VARIABLES
  revision,             \* which source file is running: "p0" or "dm"
  status,               \* "init", "mounted", "unmounted", "error"
  props,                \* the props of the last render (also of one that threw)
  mapLoaded,            \* the useState value of the last render
  pendingLoaded,        \* setMapLoaded(true) is queued and not rendered yet
  map,                  \* map.current: an index of maps, or NoMap
  maps,                 \* every maplibregl.Map constructed so far
  markers,              \* every maplibregl.Marker constructed so far
  restaurantMarkerRef,  \* p0 only: restaurantMarkerRef.current
  deliveryMarkerRef,    \* p0 only: deliveryMarkerRef.current
  partnerMarkerRef,     \* partnerMarkerRef.current (partnerMarker.current in dm)
  ops,                  \* the map-library calls made by the last step, in order
  page                  \* OrderPage: where the call is, its params, its result

vars == <<revision, status, props, mapLoaded, pendingLoaded, map, maps, markers,
          restaurantMarkerRef, deliveryMarkerRef, partnerMarkerRef, ops, page>>

----------------------------------------------------------------------------
\* Values

NoMap == 0
NoMarker == 0

\* An optional {lat, lng}: undefined is the record with present = FALSE.
Absent == [present |-> FALSE, lat |-> 0, lng |-> 0]
Coord(la, ln) == [present |-> TRUE, lat |-> la, lng |-> ln]
Coords == {Coord(pt[1], pt[2]) : pt \in Points}
OptCoords == Coords \cup {Absent}

DeliveryMapProps ==
  [restaurantLocation : OptCoords, deliveryLocation : OptCoords, partnerLocation : OptCoords]

PropOf(p, role) ==
  CASE role = "restaurant" -> p.restaurantLocation
    [] role = "destination" -> p.deliveryLocation
    [] role = "partner" -> p.partnerLocation

defaultCenter == Coord(129716, 775946)

\* x?.lat and x?.lng as dependency values: undefined when x is undefined.
OptLat(c) == [defined |-> c.present, value |-> c.lat]
OptLng(c) == [defined |-> c.present, value |-> c.lng]

\* The imperative state the effects work on, as one record.
Heap ==
  [map |-> map, maps |-> maps, markers |-> markers,
   restaurantMarkerRef |-> restaurantMarkerRef,
   deliveryMarkerRef |-> deliveryMarkerRef,
   partnerMarkerRef |-> partnerMarkerRef,
   ops |-> <<>>]

SetHeap(h) ==
  /\ map' = h.map
  /\ maps' = h.maps
  /\ markers' = h.markers
  /\ restaurantMarkerRef' = h.restaurantMarkerRef
  /\ deliveryMarkerRef' = h.deliveryMarkerRef
  /\ partnerMarkerRef' = h.partnerMarkerRef
  /\ ops' = h.ops

\* One call of the map library: its name, the role of the marker it is about
\* ("none" for a map call), the map instance it acts on, its coordinate, and
\* whether that instance had fired load when the call was made.
Op(name, role, m, at, h) ==
  [op |-> name, role |-> role, map |-> m, at |-> at,
   loaded |-> IF m = NoMap THEN FALSE ELSE h.maps[m].loaded]

Log(h, name, role, m, at) == [h EXCEPT !.ops = Append(@, Op(name, role, m, at, h))]

----------------------------------------------------------------------------
\* The map library, as far as the component uses it

\* The options of the last easeTo call on a map instance, and whether the
\* transition it started is still in flight. easing is the easing function,
\* tabulated at the sample points 0 .. EaseSamples of the progress.
NoEase ==
  [running |-> FALSE, duration |-> 0, easing |-> [t \in 0 .. EaseSamples |-> 0],
   zoom |-> FALSE]

\* new maplibregl.Map({center, zoom}) assigned to map.current, then addControl
\* and on("load", ...). center is the centre the camera is at or is moving to.
NewMap(h, center, zoom) ==
  LET id == Len(h.maps) + 1
      h1 == [h EXCEPT !.maps = Append(@, [center |-> center, zoom |-> zoom,
                                          loaded |-> FALSE, removed |-> FALSE,
                                          control |-> FALSE, onLoad |-> FALSE,
                                          ease |-> NoEase]),
                      !.map = id]
      h2 == Log(h1, "Map", "none", id, center)
      h3 == Log([h2 EXCEPT !.maps[id].control = TRUE], "addControl", "none", id, Absent)
  IN  [h3 EXCEPT !.maps[id].onLoad = TRUE]

\* map.remove()
RemoveMap(h, m) == Log([h EXCEPT !.maps[m].removed = TRUE], "remove", "none", m, Absent)

\* new maplibregl.Marker({element}).setLngLat(c).addTo(map.current)
NewMarker(h, role, c) ==
  Log([h EXCEPT !.markers = Append(@, [role |-> role, lngLat |-> c, map |-> h.map])],
      "Marker", role, h.map, c)

\* marker.setLngLat(c)
SetLngLat(h, mk, c) ==
  Log([h EXCEPT !.markers[mk].lngLat = c], "setLngLat", h.markers[mk].role,
      h.markers[mk].map, c)

EaseDuration_p0 == 1000

\* easing: (t) => t
Easing_p0(t) == t

\* A variant of the call that also gives zoom: 15.
EaseTo_withZoom(h, c) ==
  Log([h EXCEPT !.maps[h.map].center = c,
                !.maps[h.map].zoom = 15,
                !.maps[h.map].ease =
                  [running |-> TRUE, duration |-> EaseDuration_p0,
                   easing |-> [t \in 0 .. EaseSamples |-> Easing_p0(t)],
                   zoom |-> TRUE]],
      "easeTo", "none", h.map, c)

\* map.current.easeTo({center, duration: 1000, easing: (t) => t, essential}):
\* no zoom is given, so the zoom of the map stays as it is.
EaseTo(h, c) ==
  Log([h EXCEPT !.maps[h.map].center = c,
                !.maps[h.map].ease =
                  [running |-> TRUE, duration |-> EaseDuration_p0,
                   easing |-> [t \in 0 .. EaseSamples |-> Easing_p0(t)],
                   zoom |-> FALSE]],
      "easeTo", "none", h.map, c)

\* map.current.flyTo({center, speed}) : no zoom is given
FlyTo(h, c) == Log([h EXCEPT !.maps[h.map].center = c], "flyTo", "none", h.map, c)

----------------------------------------------------------------------------
\* src/unnamed/part_000

InitialZoom_p0 == 13

\* const center = restaurantLocation || defaultCenter;
Center_p0(p) == IF p.restaurantLocation.present THEN p.restaurantLocation ELSE defaultCenter

\* 1. Initialize Map: the effect body. mapContainer.current is attached when
\* the effects of a commit run, so the guard is left with map.current.
InitializeMap_p0(h, p) ==
  IF h.map # NoMap THEN h ELSE NewMap(h, Center_p0(p), InitialZoom_p0)

\* A variant of the cleanup that drops the ref without calling remove().
CleanupMap_p0_noRemove(h) == [h EXCEPT !.map = NoMap]

\* The cleanup of the effect: map.current?.remove(); map.current = null.
CleanupMap_p0(h) ==
  IF h.map # NoMap THEN [RemoveMap(h, h.map) EXCEPT !.map = NoMap] ELSE h

\* A variant that keeps no check of the ref: a marker is made on every run.
UpdateStaticMarkers_p0_noRef(h, ml, p) ==
  IF h.map = NoMap \/ ~ml THEN h
  ELSE
    LET h1 == IF p.restaurantLocation.present
              THEN LET n == NewMarker(h, "restaurant", p.restaurantLocation)
                   IN  [n EXCEPT !.restaurantMarkerRef = Len(n.markers)]
              ELSE h
    IN  IF p.deliveryLocation.present
        THEN LET n == NewMarker(h1, "destination", p.deliveryLocation)
             IN  [n EXCEPT !.deliveryMarkerRef = Len(n.markers)]
        ELSE h1

\* 2. Update Static Markers: the effect body.
UpdateStaticMarkers_p0(h, ml, p) ==
  IF h.map = NoMap \/ ~ml THEN h
  ELSE
    LET h1 == IF p.restaurantLocation.present
              THEN IF h.restaurantMarkerRef = NoMarker
                   THEN LET n == NewMarker(h, "restaurant", p.restaurantLocation)
                        IN  [n EXCEPT !.restaurantMarkerRef = Len(n.markers)]
                   ELSE SetLngLat(h, h.restaurantMarkerRef, p.restaurantLocation)
              ELSE h
    IN  IF p.deliveryLocation.present
        THEN IF h1.deliveryMarkerRef = NoMarker
             THEN LET n == NewMarker(h1, "destination", p.deliveryLocation)
                  IN  [n EXCEPT !.deliveryMarkerRef = Len(n.markers)]
             ELSE SetLngLat(h1, h1.deliveryMarkerRef, p.deliveryLocation)
        ELSE h1

\* A variant that does not wait for mapLoaded.
UpdatePartnerMarker_p0_noGate(h, ml, p) ==
  IF h.map = NoMap \/ ~p.partnerLocation.present THEN h
  ELSE
    LET h1 == IF h.partnerMarkerRef # NoMarker
              THEN SetLngLat(h, h.partnerMarkerRef, p.partnerLocation)
              ELSE LET n == NewMarker(h, "partner", p.partnerLocation)
                   IN  [n EXCEPT !.partnerMarkerRef = Len(n.markers)]
    IN  EaseTo(h1, p.partnerLocation)

\* 3. Update Partner Marker (Live Tracking): the effect body.
UpdatePartnerMarker_p0(h, ml, p) ==
  IF h.map = NoMap \/ ~ml \/ ~p.partnerLocation.present THEN h
  ELSE
    LET h1 == IF h.partnerMarkerRef # NoMarker
              THEN SetLngLat(h, h.partnerMarkerRef, p.partnerLocation)
              ELSE LET n == NewMarker(h, "partner", p.partnerLocation)
                   IN  [n EXCEPT !.partnerMarkerRef = Len(n.markers)]
    IN  EaseTo(h1, p.partnerLocation)

\* The dependency arrays. A location object is compared by identity: it
\* differs from the last render's when its value differs or when the caller
\* passed a fresh object (role \in fresh) with the same value.
ObjectChanged(old, new, role, fresh) ==
  \/ PropOf(old, role) # PropOf(new, role)
  \/ PropOf(new, role).present /\ role \in fresh

\* A variant without mapLoaded: [restaurantLocation, deliveryLocation]
StaticDepsChanged_p0_noLoaded(oldML, newML, old, new, fresh) ==
  \/ ObjectChanged(old, new, "restaurant", fresh)
  \/ ObjectChanged(old, new, "destination", fresh)

\* [mapLoaded, restaurantLocation, deliveryLocation]
StaticDepsChanged_p0(oldML, newML, old, new, fresh) ==
  \/ oldML # newML
  \/ ObjectChanged(old, new, "restaurant", fresh)
  \/ ObjectChanged(old, new, "destination", fresh)

\* A variant that also lists the coordinates of the two static roles.
PartnerDeps_p0_allRoles(ml, p) ==
  <<ml, OptLat(p.partnerLocation), OptLng(p.partnerLocation),
    p.restaurantLocation, p.deliveryLocation>>

\* [mapLoaded, partnerLocation?.lat, partnerLocation?.lng]
PartnerDeps_p0(ml, p) == <<ml, OptLat(p.partnerLocation), OptLng(p.partnerLocation)>>

\* The effects of the first commit: all three, in source order.
MountEffects_p0(h, ml, p) ==
  UpdatePartnerMarker_p0(UpdateStaticMarkers_p0(InitializeMap_p0(h, p), ml, p), ml, p)

\* A variant whose initialization effect has the dependencies
\* [center.lat, center.lng]: its cleanup and its body run when the centre moves.
UpdateEffects_p0_centerDeps(h, oldML, newML, old, new, fresh) ==
  LET h0 == IF Center_p0(old) # Center_p0(new)
            THEN InitializeMap_p0(CleanupMap_p0(h), new) ELSE h
      h1 == IF StaticDepsChanged_p0(oldML, newML, old, new, fresh)
            THEN UpdateStaticMarkers_p0(h0, newML, new) ELSE h0
  IN  IF PartnerDeps_p0(oldML, old) # PartnerDeps_p0(newML, new)
      THEN UpdatePartnerMarker_p0(h1, newML, new) ELSE h1

\* A variant whose partner effect has the dependencies
\* [mapLoaded, partnerLocation]: the object, not its lat and lng.
UpdateEffects_p0_objectDeps(h, oldML, newML, old, new, fresh) ==
  LET h1 == IF StaticDepsChanged_p0(oldML, newML, old, new, fresh)
            THEN UpdateStaticMarkers_p0(h, newML, new) ELSE h
  IN  IF oldML # newML \/ ObjectChanged(old, new, "partner", fresh)
      THEN UpdatePartnerMarker_p0(h1, newML, new) ELSE h1

\* The effects of a later commit: those whose dependencies changed. The
\* initialization effect has the dependencies [] and never runs again.
UpdateEffects_p0(h, oldML, newML, old, new, fresh) ==
  LET h1 == IF StaticDepsChanged_p0(oldML, newML, old, new, fresh)
            THEN UpdateStaticMarkers_p0(h, newML, new) ELSE h
  IN  IF PartnerDeps_p0(oldML, old) # PartnerDeps_p0(newML, new)
      THEN UpdatePartnerMarker_p0(h1, newML, new) ELSE h1

\* The component is rendered for the first time with the props p.
Mount_p0 ==
  /\ revision = "p0" /\ status = "init"
  /\ \E p \in DeliveryMapProps :
       /\ props' = p
       /\ SetHeap(MountEffects_p0(Heap, mapLoaded, p))
  /\ status' = "mounted"
  /\ UNCHANGED <<page, revision, mapLoaded, pendingLoaded>>

\* A re-render: with the props p when the parent re-rendered, and with the
\* queued state update applied.
Rerender_p0(p, fresh) ==
  /\ props' = p
  /\ mapLoaded' = (mapLoaded \/ pendingLoaded)
  /\ pendingLoaded' = FALSE
  /\ SetHeap(UpdateEffects_p0(Heap, mapLoaded, mapLoaded \/ pendingLoaded, props, p, fresh))
  /\ UNCHANGED <<page, revision, status>>

\* The parent re-renders the component with new props. A coordinate whose
\* value is the one of the last render is the same object or a fresh one
\* (fresh); for any other coordinate the two cases do not differ.
UpdateProps_p0 ==
  /\ revision = "p0" /\ status = "mounted"
  /\ \E p \in DeliveryMapProps :
       \E fresh \in SUBSET {r \in Roles : PropOf(p, r).present
                                           /\ PropOf(p, r) = PropOf(props, r)} :
         Rerender_p0(p, fresh)

\* React renders the state update queued by the load handler.
FlushState_p0 ==
  /\ revision = "p0" /\ status = "mounted" /\ pendingLoaded
  /\ Rerender_p0(props, {})

\* map.current.on("load", () => setMapLoaded(true)): the live map fires load.
\* Setting the state to the value it has schedules no render.
Load_p0 ==
  /\ revision = "p0" /\ status = "mounted"
  /\ map # NoMap /\ maps[map].onLoad /\ ~maps[map].loaded /\ ~maps[map].removed
  /\ maps' = [maps EXCEPT ![map].loaded = TRUE]
  /\ pendingLoaded' = ~mapLoaded
  /\ ops' = <<>>
  /\ UNCHANGED <<page, revision, status, props, mapLoaded, map, markers,
                 restaurantMarkerRef, deliveryMarkerRef, partnerMarkerRef>>

\* The user presses a zoom button of the NavigationControl of the live map.
ZoomLevels_p0 == InitialZoom_p0 .. InitialZoom_p0 + MaxZoomSteps

UserZoom_p0 ==
  /\ revision = "p0" /\ status = "mounted"
  /\ map # NoMap /\ maps[map].control /\ ~maps[map].removed
  /\ \E z \in ZoomLevels_p0 :
       /\ z \in {maps[map].zoom - 1, maps[map].zoom + 1}
       /\ maps' = [maps EXCEPT ![map].zoom = z]
  /\ ops' = <<>>
  /\ UNCHANGED <<page, revision, status, props, mapLoaded, pendingLoaded, map, markers,
                 restaurantMarkerRef, deliveryMarkerRef, partnerMarkerRef>>

\* The transition started by easeTo reaches its target on the live map.
EaseEnd_p0 ==
  /\ revision = "p0" /\ status = "mounted"
  /\ map # NoMap /\ maps[map].ease.running /\ ~maps[map].removed
  /\ maps' = [maps EXCEPT ![map].ease.running = FALSE]
  /\ ops' = <<>>
  /\ UNCHANGED <<page, revision, status, props, mapLoaded, pendingLoaded, map, markers,
                 restaurantMarkerRef, deliveryMarkerRef, partnerMarkerRef>>

\* The component unmounts: the cleanup of the initialization effect runs.
Unmount_p0 ==
  /\ revision = "p0" /\ status = "mounted"
  /\ SetHeap(CleanupMap_p0(Heap))
  /\ status' = "unmounted"
  /\ UNCHANGED <<page, revision, props, mapLoaded, pendingLoaded>>

----------------------------------------------------------------------------
\* src/components/map/delivery-map.tsx

InitialZoom_dm == 14
FitMaxZoom_dm == 15

\* map.current.fitBounds(bounds, {padding, maxZoom}): the camera is centred on
\* the bounds, at the zoom that fits them or at maxZoom when that is less. The
\* coordinates of Points lie within 0.01 degrees of each other, which fits at a
\* zoom above maxZoom, so the camera ends at maxZoom.
FitBounds(h, cs) ==
  LET lats == {c.lat : c \in cs}
      lngs == {c.lng : c \in cs}
      lo(S) == CHOOSE x \in S : \A y \in S : x <= y
      hi(S) == CHOOSE x \in S : \A y \in S : x >= y
      mid == Coord((lo(lats) + hi(lats)) \div 2, (lo(lngs) + hi(lngs)) \div 2)
  IN  Log([h EXCEPT !.maps[h.map].center = mid, !.maps[h.map].zoom = FitMaxZoom_dm],
          "fitBounds", "none", h.map, mid)

\* const center = partnerLocation || restaurantLocation || defaultCenter;
Center_dm(p) ==
  IF p.partnerLocation.present THEN p.partnerLocation
  ELSE IF p.restaurantLocation.present THEN p.restaurantLocation
  ELSE defaultCenter

\* The render evaluates partnerLocation.lat and partnerLocation.lng (no ?.) for
\* the dependency array of the partner effect: a TypeError when the prop is
\* undefined.
RenderThrows_dm(p) == ~p.partnerLocation.present

\* Initialize map: the effect body (no guard on map.current).
InitializeMap_dm(h, p) == NewMap(h, Center_dm(p), InitialZoom_dm)

\* The cleanup of the effect: if (map.current) { remove(); map.current = null }
CleanupMap_dm(h) ==
  IF h.map # NoMap THEN [RemoveMap(h, h.map) EXCEPT !.map = NoMap] ELSE h

\* Update Markers: the effect body. The markers are kept in no ref.
UpdateMarkers_dm(h, ml, p) ==
  IF h.map = NoMap \/ ~ml THEN h
  ELSE
    LET h1 == IF p.restaurantLocation.present
              THEN NewMarker(h, "restaurant", p.restaurantLocation) ELSE h
    IN  IF p.deliveryLocation.present
        THEN NewMarker(h1, "destination", p.deliveryLocation) ELSE h1

\* Update Partner Marker (Live Tracking): the effect body.
UpdatePartnerMarker_dm(h, ml, p) ==
  IF h.map = NoMap \/ ~ml \/ ~p.partnerLocation.present THEN h
  ELSE
    LET h1 == IF h.partnerMarkerRef # NoMarker
              THEN SetLngLat(h, h.partnerMarkerRef, p.partnerLocation)
              ELSE LET n == NewMarker(h, "partner", p.partnerLocation)
                   IN  [n EXCEPT !.partnerMarkerRef = Len(n.markers)]
    IN  FlyTo(h1, p.partnerLocation)

\* Fit bounds: the effect body.
FitBounds_dm(h, ml, p) ==
  IF h.map = NoMap \/ ~ml THEN h
  ELSE
    LET cs == {PropOf(p, r) : r \in {q \in Roles : PropOf(p, q).present}}
    IN  IF Cardinality(cs) > 0 THEN FitBounds(h, cs) ELSE h

\* [center.lat, center.lng]
InitDeps_dm(p) == <<Center_dm(p).lat, Center_dm(p).lng>>

\* [mapLoaded, restaurantLocation?.lat, restaurantLocation?.lng,
\*  deliveryLocation?.lat, deliveryLocation?.lng]: of the marker effect and of
\* the fit-bounds effect.
StaticDeps_dm(ml, p) ==
  <<ml, OptLat(p.restaurantLocation), OptLng(p.restaurantLocation),
    OptLat(p.deliveryLocation), OptLng(p.deliveryLocation)>>

\* [mapLoaded, partnerLocation.lat, partnerLocation.lng]
PartnerDeps_dm(ml, p) == <<ml, p.partnerLocation.lat, p.partnerLocation.lng>>

\* The effects of the first commit: all four, in source order.
MountEffects_dm(h, ml, p) ==
  FitBounds_dm(
    UpdatePartnerMarker_dm(UpdateMarkers_dm(InitializeMap_dm(h, p), ml, p), ml, p),
    ml, p)

\* The effects of a later commit: the cleanups of the effects whose
\* dependencies changed, then their bodies in source order.
UpdateEffects_dm(h, oldML, newML, old, new) ==
  LET reinit == InitDeps_dm(old) # InitDeps_dm(new)
      static == StaticDeps_dm(oldML, old) # StaticDeps_dm(newML, new)
      h1 == IF reinit THEN InitializeMap_dm(CleanupMap_dm(h), new) ELSE h
      h2 == IF static THEN UpdateMarkers_dm(h1, newML, new) ELSE h1
      h3 == IF PartnerDeps_dm(oldML, old) # PartnerDeps_dm(newML, new)
            THEN UpdatePartnerMarker_dm(h2, newML, new) ELSE h2
  IN  IF static THEN FitBounds_dm(h3, newML, new) ELSE h3

\* The component is rendered for the first time with the props p. When the
\* render throws nothing is committed and no effect runs.
Mount_dm ==
  /\ revision = "dm" /\ status = "init"
  /\ \E p \in DeliveryMapProps :
       /\ props' = p
       /\ IF RenderThrows_dm(p)
          THEN /\ status' = "error"
               /\ SetHeap(Heap)
          ELSE /\ status' = "mounted"
               /\ SetHeap(MountEffects_dm(Heap, mapLoaded, p))
  /\ UNCHANGED <<page, revision, mapLoaded, pendingLoaded>>

\* A re-render. When the render throws React unmounts the component, which
\* runs the cleanup of the initialization effect.
Rerender_dm(p) ==
  /\ props' = p
  /\ IF RenderThrows_dm(p)
     THEN /\ status' = "error"
          /\ SetHeap(CleanupMap_dm(Heap))
          /\ UNCHANGED <<mapLoaded, pendingLoaded>>
     ELSE LET h == UpdateEffects_dm(Heap, mapLoaded, mapLoaded \/ pendingLoaded,
                                    props, p)
          IN  /\ Len(h.maps) <= MaxMaps
              /\ Len(h.markers) <= MaxMarkers
              /\ SetHeap(h)
              /\ mapLoaded' = (mapLoaded \/ pendingLoaded)
              /\ pendingLoaded' = FALSE
              /\ status' = status
  /\ UNCHANGED <<page, revision>>

\* The parent re-renders the component with new props.
UpdateProps_dm ==
  /\ revision = "dm" /\ status = "mounted"
  /\ \E p \in DeliveryMapProps : Rerender_dm(p)

\* React renders the state update queued by the load handler.
FlushState_dm ==
  /\ revision = "dm" /\ status = "mounted" /\ pendingLoaded
  /\ Rerender_dm(props)

\* map.current.on("load", () => setMapLoaded(true)): the live map fires load.
\* Setting the state to the value it has schedules no render.
Load_dm ==
  /\ revision = "dm" /\ status = "mounted"
  /\ map # NoMap /\ maps[map].onLoad /\ ~maps[map].loaded /\ ~maps[map].removed
  /\ maps' = [maps EXCEPT ![map].loaded = TRUE]
  /\ pendingLoaded' = ~mapLoaded
  /\ ops' = <<>>
  /\ UNCHANGED <<page, revision, status, props, mapLoaded, map, markers,
                 restaurantMarkerRef, deliveryMarkerRef, partnerMarkerRef>>

\* The component unmounts: the cleanup of the initialization effect runs.
Unmount_dm ==
  /\ revision = "dm" /\ status = "mounted"
  /\ SetHeap(CleanupMap_dm(Heap))
  /\ status' = "unmounted"
  /\ UNCHANGED <<page, revision, props, mapLoaded, pendingLoaded>>

-----------------------------------------------------------------------------
\* src/app/order/[id]/page.tsx

\* The characters of a path segment, and the segments a request for
\* /order/<segment> can carry: strings, the empty one among them.
IdChars == {"a", "b", "7"}
Segments == UNION {[1 .. n -> IdChars] : n \in 0 .. MaxIdLen}

NoElement == [type |-> "none", id |-> <<>>]

\* No request yet.
PageIdle == [pc |-> "idle", params |-> [settled |-> FALSE, id |-> <<>>],
             element |-> NoElement]

\* The dynamic segment [id] of the route matches one path segment that is not
\* empty.
RouteMatches(segment) == segment # <<>>

\* <OrderClient id={id} />
OrderClientElement(id) == [type |-> "OrderClient", id |-> id]

\* A variant that does not await: const { id } = params reads the id
\* property of the promise, which has none, and returns at once.
OrderPage_noAwait(pg) ==
  [pg EXCEPT !.pc = "returned", !.element = OrderClientElement(<<>>)]

\* const { id } = await params; return <OrderClient id={id} />: the call stays
\* suspended at the await until the promise is settled.
OrderPage(pg) ==
  IF pg.params.settled
  THEN [pg EXCEPT !.pc = "returned", !.element = OrderClientElement(pg.params.id)]
  ELSE pg

\* A request for /order/<segment> arrives. When the route matches, the router
\* calls OrderPage with a promise of the params, which runs to its await.
Request_page ==
  /\ page.pc = "idle"
  /\ \E segment \in Segments :
       page' = IF RouteMatches(segment)
               THEN [page EXCEPT !.pc = "awaiting", !.params.id = segment]
               ELSE [page EXCEPT !.pc = "notFound"]
  /\ UNCHANGED <<revision, status, props, mapLoaded, pendingLoaded, map, maps,
                 markers, restaurantMarkerRef, deliveryMarkerRef,
                 partnerMarkerRef, ops>>

\* The promise of the params is fulfilled with { id }.
ResolveParams_page ==
  /\ page.pc = "awaiting" /\ ~page.params.settled
  /\ page' = [page EXCEPT !.params.settled = TRUE]
  /\ UNCHANGED <<revision, status, props, mapLoaded, pendingLoaded, map, maps,
                 markers, restaurantMarkerRef, deliveryMarkerRef,
                 partnerMarkerRef, ops>>

\* The scheduler runs the suspended call of OrderPage.
Resume_page ==
  /\ page.pc = "awaiting"
  /\ page' = OrderPage(page)
  /\ page' # page
  /\ UNCHANGED <<revision, status, props, mapLoaded, pendingLoaded, map, maps,
                 markers, restaurantMarkerRef, deliveryMarkerRef,
                 partnerMarkerRef, ops>>

NextPage ==
  \/ Request_page
  \/ ResolveParams_page
  \/ Resume_page

----------------------------------------------------------------------------
\* The specification

Init ==
  /\ page = PageIdle
  /\ revision \in {"p0", "dm"}
  /\ status = "init"
  /\ props = [restaurantLocation |-> Absent, deliveryLocation |-> Absent,
              partnerLocation |-> Absent]
  /\ mapLoaded = FALSE
  /\ pendingLoaded = FALSE
  /\ map = NoMap
  /\ maps = <<>>
  /\ markers = <<>>
  /\ restaurantMarkerRef = NoMarker
  /\ deliveryMarkerRef = NoMarker
  /\ partnerMarkerRef = NoMarker
  /\ ops = <<>>

NextP0 ==
  \/ Mount_p0
  \/ UpdateProps_p0
  \/ FlushState_p0
  \/ Load_p0
  \/ UserZoom_p0
  \/ EaseEnd_p0
  \/ Unmount_p0

NextDM ==
  \/ Mount_dm
  \/ UpdateProps_dm
  \/ FlushState_dm
  \/ Load_dm
  \/ Unmount_dm

\* The page alone: no DeliveryMap is mounted in these behaviours.
SpecPage == Init /\ [][NextPage]_vars

\* The DeliveryMap component, in either revision.
Next == NextP0 \/ NextDM

Spec == Init /\ [][Next]_vars

\* One revision alone.
InitP0 == Init /\ revision = "p0"
InitDM == Init /\ revision = "dm"

SpecP0 == InitP0 /\ [][NextP0]_vars
SpecDM == InitDM /\ [][NextDM]_vars

\* A queued state update of a mounted component is rendered, by the flush or
\* by a render the parent starts: React leaves no update queued for ever.
RenderQueued_p0 ==
  revision = "p0" /\ status = "mounted" /\ pendingLoaded /\ pendingLoaded' = FALSE

FairSpecP0 == InitP0 /\ [][NextP0]_vars /\ WF_pendingLoaded(RenderQueued_p0)

----------------------------------------------------------------------------
\* Properties

MarkerOps == {"Marker", "setLngLat"}
CameraOps == {"easeTo", "flyTo", "fitBounds"}

\* The markers of a role that were added to the map instance m.
MarkersOn(m, role) == {i \in DOMAIN markers : markers[i].role = role /\ markers[i].map = m}

\* The markers of a role, on any map instance.
MarkersOfRole(role) == {i \in DOMAIN markers : markers[i].role = role}

RefOf(role) ==
  CASE role = "restaurant" -> restaurantMarkerRef
    [] role = "destination" -> deliveryMarkerRef
    [] role = "partner" -> partnerMarkerRef

Did(name, role) == \E i \in DOMAIN ops : ops[i].op = name /\ ops[i].role = role

\* C1: in part_000 no more than one marker is ever constructed for a role, and
\* the role's ref holds it: later coordinates reposition it.
C1_OneMarkerPerRole ==
  revision = "p0" =>
    \A r \in Roles :
      /\ Cardinality(MarkersOfRole(r)) <= 1
      /\ MarkersOfRole(r) = IF RefOf(r) = NoMarker THEN {} ELSE {RefOf(r)}
      /\ \A m \in DOMAIN maps : Cardinality(MarkersOn(m, r)) <= 1

\* C1 witness: every role has its marker and two of them were just repositioned.
C1_Witness ==
  /\ revision = "p0" /\ status = "mounted"
  /\ \A r \in Roles : Cardinality(MarkersOfRole(r)) = 1
  /\ Did("setLngLat", "restaurant") /\ Did("setLngLat", "partner")

\* C2: in delivery-map.tsx no map instance carries more than one restaurant
\* marker or more than one destination marker.
C2_NoSecondStaticMarker ==
  revision = "dm" =>
    \A m \in DOMAIN maps : \A r \in StaticRoles : Cardinality(MarkersOn(m, r)) <= 1

\* C3: in part_000 the map constructor runs once per mount, whatever the props
\* do, and the initialization effect run again on a live instance changes
\* nothing.
C3_MapCreatedOnce ==
  revision = "p0" =>
    /\ Len(maps) <= 1
    /\ status = "mounted" =>
         /\ Len(maps) = 1 /\ map = 1 /\ ~maps[1].removed
         /\ InitializeMap_p0(Heap, props) = Heap

\* C3 witness: the one map is live and still has the centre it was constructed
\* with (the camera was never eased), and the centre computed from the props
\* has changed since: the restaurant moved.
C3_Witness ==
  /\ revision = "p0" /\ status = "mounted" /\ Len(maps) = 1
  /\ partnerMarkerRef = NoMarker
  /\ Did("setLngLat", "restaurant")
  /\ Center_p0(props) # maps[1].center

\* C4: in delivery-map.tsx the map instance created at mount is the live one
\* until unmount.
C4_MapNeverRebuilt ==
  revision = "dm" /\ status = "mounted" => map = 1 /\ Len(maps) = 1

\* The centre the specification gives: partner, else restaurant, else default.
PriorityCenter(p) ==
  IF p.partnerLocation.present THEN p.partnerLocation
  ELSE IF p.restaurantLocation.present THEN p.restaurantLocation
  ELSE defaultCenter

\* C5: in part_000 the map is constructed centred on the partner coordinate if
\* present, else on the restaurant coordinate, else on the default.
C5_CenterPriority ==
  revision = "p0" =>
    \A i \in DOMAIN ops : ops[i].op = "Map" => ops[i].at = PriorityCenter(props)

\* C6: in part_000 every marker call and every camera call is made on a map
\* instance that has fired load.
C6_NoOpBeforeLoad ==
  revision = "p0" =>
    \A i \in DOMAIN ops : ops[i].op \in MarkerOps \cup CameraOps => ops[i].loaded

\* C6 witness: coordinates were applied (a marker made, the camera eased) by
\* the commit that follows the load event.
C6_Witness ==
  /\ revision = "p0" /\ status = "mounted" /\ mapLoaded
  /\ Did("Marker", "partner") /\ Did("Marker", "restaurant") /\ Did("easeTo", "none")

\* C7: in delivery-map.tsx mapLoaded is true only when the live map instance
\* has fired load, and no marker or camera call is made on an instance that
\* has not.
C7_LoadedPerInstance ==
  revision = "dm" =>
    /\ mapLoaded /\ map # NoMap => maps[map].loaded
    /\ \A i \in DOMAIN ops : ops[i].op \in MarkerOps \cup CameraOps => ops[i].loaded

\* Every role whose coordinate is present has its marker, on the live map, at
\* that coordinate.
AllPresentMarked ==
  \A r \in Roles :
    PropOf(props, r).present =>
      /\ RefOf(r) # NoMarker
      /\ markers[RefOf(r)].lngLat = PropOf(props, r)
      /\ markers[RefOf(r)].map = map

\* C8: in part_000, once the map has fired load and while the component stays
\* mounted, eventually every role with a coordinate has its marker at the
\* latest coordinate, also when the coordinate came before the load.
C8_DeferredNotDropped ==
  (revision = "p0" /\ status = "mounted" /\ map # NoMap /\ maps[map].loaded)
    ~> (status # "mounted" \/ AllPresentMarked)

\* C8 witness: the three markers are made by one commit after the load, at the
\* coordinates of the props.
C8_Witness ==
  /\ revision = "p0" /\ status = "mounted" /\ mapLoaded
  /\ \A r \in Roles : PropOf(props, r).present /\ Did("Marker", r)
  /\ AllPresentMarked

\* C9: in both revisions a marker is made for a role only by a commit whose
\* props hold the role's coordinate, and a component given the restaurant and
\* the delivery coordinate alone renders, and once loaded has exactly the two
\* markers.
C9_NoMarkerWithoutCoordinate ==
  /\ \A i \in DOMAIN ops :
       ops[i].op = "Marker" => PropOf(props, ops[i].role) = ops[i].at
  /\ (/\ props.restaurantLocation.present /\ props.deliveryLocation.present
      /\ ~props.partnerLocation.present)
       => /\ status # "error"
          /\ (status = "mounted" /\ mapLoaded /\ partnerMarkerRef = NoMarker)
               => /\ Len(markers) = 2
                  /\ Cardinality(MarkersOn(map, "restaurant")) = 1
                  /\ Cardinality(MarkersOn(map, "destination")) = 1

\* C10: in delivery-map.tsx a render with partnerLocation absent raises no
\* error.
C10_AbsentPartnerRenders ==
  revision = "dm" /\ ~props.partnerLocation.present => status # "error"

\* C11: in part_000, once the component has unmounted the map ref is null and
\* none of the three marker refs refers to a marker of a removed map.
C11_TeardownReleasesHandles ==
  revision = "p0" /\ status = "unmounted" =>
    /\ map = NoMap
    /\ \A r \in Roles :
         RefOf(r) = NoMarker \/ ~maps[markers[RefOf(r)].map].removed

\* The calls of the given names in a log of calls.
Calls(log, names) == {i \in DOMAIN log : log[i].op \in names}

\* C12: in part_000 a commit that changes the partner coordinate on a map
\* that has fired load makes exactly one camera call: an easeTo to the new
\* coordinate, 1000 ms, linear easing, no zoom given. The partner marker is at
\* the new coordinate and the zoom of the map is what it was before.
C12_PartnerChangeEases ==
  [][(/\ revision = "p0" /\ status = "mounted" /\ status' = "mounted"
      /\ maps[map].loaded
      /\ props'.partnerLocation.present
      /\ props'.partnerLocation # props.partnerLocation)
       => /\ Cardinality(Calls(ops', CameraOps)) = 1
          /\ \A i \in Calls(ops', CameraOps) :
               /\ ops'[i].op = "easeTo"
               /\ ops'[i].map = map'
               /\ ops'[i].at = props'.partnerLocation
          /\ maps'[map'].center = props'.partnerLocation
          /\ maps'[map'].ease.running
          /\ maps'[map'].ease.duration = 1000
          /\ \A t \in 0 .. EaseSamples : maps'[map'].ease.easing[t] = t
          /\ ~maps'[map'].ease.zoom
          /\ maps'[map'].zoom = maps[map].zoom
          /\ partnerMarkerRef' # NoMarker
          /\ markers'[partnerMarkerRef'].lngLat = props'.partnerLocation
          /\ markers'[partnerMarkerRef'].map = map']_vars

\* C12 witness: the partner marker was repositioned and the camera eased to it
\* on a map whose zoom the user had changed.
C12_Witness ==
  /\ revision = "p0" /\ status = "mounted" /\ mapLoaded
  /\ Did("setLngLat", "partner") /\ Did("easeTo", "none")
  /\ maps[map].zoom # InitialZoom_p0
  /\ maps[map].center = props.partnerLocation

\* C13: in part_000 only the partner role moves the camera. No commit whose
\* props have no partner coordinate makes a camera call, and a commit that
\* changes the restaurant or the delivery coordinate and nothing else makes no
\* camera call and no call on the partner marker: the centre and the zoom
\* of the map and the partner marker are what they were.
C13_OnlyPartnerMovesCamera ==
  [][revision = "p0" =>
       /\ ~props'.partnerLocation.present => Calls(ops', CameraOps) = {}
       /\ (/\ status = "mounted" /\ status' = "mounted"
           /\ mapLoaded' = mapLoaded
           /\ props'.partnerLocation = props.partnerLocation
           /\ \/ props'.restaurantLocation # props.restaurantLocation
              \/ props'.deliveryLocation # props.deliveryLocation)
            => /\ Calls(ops', CameraOps) = {}
               /\ \A i \in DOMAIN ops' : ops'[i].role # "partner"
               /\ map' = map
               /\ maps'[map].center = maps[map].center
               /\ maps'[map].zoom = maps[map].zoom
               /\ maps'[map].ease = maps[map].ease
               /\ partnerMarkerRef' = partnerMarkerRef
               /\ partnerMarkerRef # NoMarker =>
                    markers'[partnerMarkerRef] = markers[partnerMarkerRef]]_vars

\* C13 witness: with the partner marker on the map, a commit repositioned the
\* restaurant marker and made no camera call; the camera is still on the
\* partner, at the zoom the user chose.
C13_Witness ==
  /\ revision = "p0" /\ status = "mounted" /\ mapLoaded
  /\ partnerMarkerRef # NoMarker /\ props.partnerLocation.present
  /\ Did("setLngLat", "restaurant")
  /\ Calls(ops, CameraOps) = {}
  /\ maps[map].center = props.partnerLocation
  /\ maps[map].center # props.restaurantLocation
  /\ maps[map].zoom # InitialZoom_p0

\* C14: no commit of delivery-map.tsx calls both flyTo and fitBounds, and no
\* commit of part_000 calls fitBounds.
C14_OneCameraPolicy ==
  /\ revision = "dm" =>
       Calls(ops, {"flyTo"}) = {} \/ Calls(ops, {"fitBounds"}) = {}
  /\ revision = "p0" => Calls(ops, {"fitBounds"}) = {}

\* C15: in part_000, when the map has loaded and every effect has run, a role
\* whose coordinate is absent from the props has no marker on the map, also
\* when the coordinate was present in earlier props.
C15_AbsentRoleUnmarked ==
  (revision = "p0" /\ status = "mounted" /\ mapLoaded /\ ~pendingLoaded) =>
    \A r \in Roles : ~PropOf(props, r).present => MarkersOn(map, r) = {}

\* What a map instance can still do by itself: fire load, or carry on the
\* camera transition it was given. A removed instance does neither.
LoadPending(m) == maps[m].onLoad /\ ~maps[m].loaded /\ ~maps[m].removed
InFlight(m) == maps[m].ease.running /\ ~maps[m].removed

\* C16: in part_000 unmounting is safe whatever is pending. No render and no
\* cleanup raises an error; the cleanup, run in any state, leaves no live map
\* instance; and once the component has unmounted the map ref is null, no
\* instance can fire load or is animating, the only calls of the last step
\* are remove(), and no further step (render, effect, load handler, state
\* update) is possible.
C16_UnmountIsSafe ==
  revision = "p0" =>
    /\ status # "error"
    /\ LET h == CleanupMap_p0(Heap)
       IN  h.map = NoMap /\ \A m \in DOMAIN h.maps : h.maps[m].removed
    /\ status = "unmounted" =>
         /\ map = NoMap
         /\ \A m \in DOMAIN maps : ~LoadPending(m) /\ ~InFlight(m)
         /\ \A i \in DOMAIN ops : ops[i].op = "remove"
         /\ ~ENABLED NextP0

\* C16 witness: the component unmounted while the camera transition of the
\* last partner update was under way.
C16_Witness ==
  /\ revision = "p0" /\ status = "unmounted"
  /\ Len(maps) = 1 /\ maps[1].removed /\ maps[1].ease.running
  /\ Did("remove", "none")

\* The component unmounted before its map fired load.
C16_UnmountedBeforeLoad ==
  /\ revision = "p0" /\ status = "unmounted"
  /\ Len(maps) = 1 /\ maps[1].removed /\ ~maps[1].loaded

\* C17: in part_000 a re-render by the parent with props equal to the last
\* ones, each coordinate the same object or a fresh object with the same lat
\* and lng, makes no marker, moves no marker, leaves the map and its camera
\* as they were and makes no camera call.
C17_IdenticalRerenderIdempotent ==
  [][(/\ revision = "p0" /\ status = "mounted"
      /\ props' = props /\ mapLoaded' = mapLoaded
      /\ UpdateProps_p0)
       => /\ markers' = markers
          /\ maps' = maps /\ map' = map
          /\ restaurantMarkerRef' = restaurantMarkerRef
          /\ deliveryMarkerRef' = deliveryMarkerRef
          /\ partnerMarkerRef' = partnerMarkerRef
          /\ Calls(ops', CameraOps \cup {"Marker", "Map", "remove"}) = {}]_vars

\* C17 witness: with the three markers on the map and the camera at rest on
\* the partner, a commit called setLngLat on the two static markers and made
\* no camera call.
C17_Witness ==
  /\ revision = "p0" /\ status = "mounted" /\ mapLoaded
  /\ \A r \in Roles : PropOf(props, r).present /\ Cardinality(MarkersOn(map, r)) = 1
  /\ AllPresentMarked
  /\ Len(ops) = 2 /\ Did("setLngLat", "restaurant") /\ Did("setLngLat", "destination")
  /\ maps[map].center = props.partnerLocation /\ ~maps[map].ease.running

\* C18: in delivery-map.tsx, while the component is mounted, the marker that
\* partnerMarker refers to is on the live map instance, never on a removed
\* one, and once the map has loaded and every effect has run it is at the
\* partner coordinate of the props.
C18_PartnerMarkerOnLiveMap ==
  (revision = "dm" /\ status = "mounted" /\ partnerMarkerRef # NoMarker) =>
    /\ markers[partnerMarkerRef].map = map
    /\ ~maps[markers[partnerMarkerRef].map].removed
    /\ (mapLoaded /\ ~pendingLoaded) =>
         markers[partnerMarkerRef].lngLat = props.partnerLocation

====
